---- MODULE Spec2Model ----
(***************************************************************************)
(* A model of the JournalCalendar widget of                                *)
(* static/js/components/calendar.js: its state (container, options,        *)
(* currentDate, selectedDate), the DOM subtree it renders with the click   *)
(* listeners bound to it, and its operations (construction, render,        *)
(* attachEvents, the navigation and day click handlers, setEntryDates,     *)
(* goToMonth, getCurrentMonth).                                            *)
(*                                                                         *)
(* A JavaScript Date is modelled by its local calendar fields; the time of *)
(* day is left out (no operation of the widget reads or changes it).       *)
(***************************************************************************)
EXTENDS Integers, Sequences, FiniteSets, TLC

VARIABLES
    container,    \* this.container: "element" (resolved) or "null"
    options,      \* this.options, or Undefined when the constructor returned early
    currentDate,  \* this.currentDate: a Date, or Undefined
    selectedDate, \* this.selectedDate: a date string, "null" or "undefined"
    today,        \* the host's clock: what new Date() yields
    dom,          \* the container's subtree: the rendered html and its listeners
    suppliedDates,\* history: the entry collection the host supplied last
    last,         \* history: the last operation run and what the host observed
    modals,       \* the confirm modals shown by showConfirmModal
    form,         \* the feedback form, its submit button and its request
    deb           \* a function returned by debounce, its timer and the clock

\* The calendar widget's variables and those of the page's other components.
calendarVars == <<container, options, currentDate, selectedDate, today, dom,
                  suppliedDates, last>>

pageVars == <<modals, form, deb>>

vars == <<calendarVars, pageVars>>

(***************************************************************************)
(* The built-in Date of ECMAScript (proleptic Gregorian calendar).         *)
(***************************************************************************)

\* Day number (days since 1970-01-01) of year y, month m (0..11), day d.
DayFromCivil(y, m, d) ==
    LET yy  == IF m <= 1 THEN y - 1 ELSE y
        era == yy \div 400
        yoe == yy - era * 400
        mp  == (m + 10) % 12
        doy == (153 * mp + 2) \div 5 + d - 1
        doe == yoe * 365 + yoe \div 4 - yoe \div 100 + doy
    IN  era * 146097 + doe - 719468

\* MakeDay(year, month, date): the month carries into the year, the date
\* into the following months.
MakeDay(year, month, date) ==
    DayFromCivil(year + month \div 12, month % 12, 1) + date - 1

\* The Date whose day number is z: getFullYear, getMonth, getDate, getDay.
DateFromDay(z) ==
    LET zz  == z + 719468
        era == zz \div 146097
        doe == zz - era * 146097
        yoe == (doe - doe \div 1460 + doe \div 36524 - doe \div 146096) \div 365
        doy == doe - (365 * yoe + yoe \div 4 - yoe \div 100)
        mp  == (5 * doy + 2) \div 153
        d   == doy - (153 * mp + 2) \div 5 + 1
        m   == IF mp < 10 THEN mp + 2 ELSE mp - 10
        y   == yoe + era * 400 + (IF m <= 1 THEN 1 ELSE 0)
    IN  [kind |-> "Date", year |-> y, month |-> m, date |-> d,
         day |-> (z + 4) % 7]

\* new Date(year, month, date): a year of 0..99 means 1900 + year.
NewDate(year, month, date) ==
    LET yr == IF year >= 0 /\ year <= 99 THEN 1900 + year ELSE year
    IN  DateFromDay(MakeDay(yr, month, date))

\* Fault injection for setMonth: the month wraps into 0..11 but the carry
\* into the year is lost.
SetMonthNoCarry(d, month) == DateFromDay(MakeDay(d.year, month % 12, d.date))

\* Date.prototype.setMonth(month) on d: the year and the day of the month
\* are kept and the result is normalised.
SetMonth(d, month) == DateFromDay(MakeDay(d.year, month, d.date))

Undefined == [kind |-> "undefined"]

(***************************************************************************)
(* Bounds of the model: the inputs the host and the user choose from.      *)
(***************************************************************************)

\* The days on which the widget is constructed.
Todays == { NewDate(2024, 0, 31), NewDate(2023, 10, 15) }

\* The (year, month) arguments the host passes to goToMonth.
GoYears == {-1, 0, 2024}
GoMonths == {-1, 0, 1, 12}

\* The arrays the host passes as entryDates and to setEntryDates.
EntryArrays == { <<>>, <<"2024-01-15">>, <<"2024-02-29", "2024-1-31">> }

\* The options objects the host constructs the widget with.
HostOptions ==
    { [entryDates |-> e, onDateSelect |-> c[1], onMonthChange |-> c[2],
       highlightToday |-> c[3]] :
        e \in {<<"2024-01-15">>},
        c \in {<<TRUE, TRUE, TRUE>>, <<FALSE, FALSE, TRUE>>,
               <<TRUE, FALSE, FALSE>>} }

\* The day cells the user clicks: the cell of day 1 up to this day.
MaxClickDay == 1

\* The months from which the model lets the user navigate on: a click is
\* taken only while one of them is displayed, wherever it leads.
InWindow(d) ==
    \/ d.year = 2023 /\ d.month >= 9
    \/ d.year = 2024 /\ d.month <= 3
    \/ d.year \in {0, 1900} /\ d.month <= 1

(***************************************************************************)
(* render (calendar.js 38-102) and attachEvents (104-133).                 *)
(***************************************************************************)

monthNames ==
    << "January", "February", "March", "April", "May", "June", "July",
       "August", "September", "October", "November", "December" >>

\* String(n).padStart(2, '0')
PadStart2(n) == IF n >= 0 /\ n < 10 THEN "0" \o ToString(n) ELSE ToString(n)

\* The template literal of a cell's data-date.
DateStr(year, month, day) ==
    ToString(year) \o "-" \o PadStart2(month + 1) \o "-" \o PadStart2(day)

\* Array.prototype.includes on an array of strings.
Includes(array, s) == \E i \in 1..Len(array) : array[i] = s

\* const firstDay = new Date(year, month, 1).getDay();
FirstDay(year, month) == NewDate(year, month, 1).day

\* const daysInMonth = new Date(year, month + 1, 0).getDate();
DaysInMonth(year, month) == NewDate(year, month + 1, 0).date

\* const hasEntry = this.options.entryDates.includes(dateStr);
HasEntry(opts, dateStr) == Includes(opts.entryDates, dateStr)

\* Fault injection for render: the today flag is taken from the day of the
\* widget's own date instead of the clock's.
RenderHtmlMarkingCurrent(cd, opts, now) ==
    LET year  == cd.year
        month == cd.month
        Cell(day) ==
            LET dateStr == DateStr(year, month, day)
            IN  [date     |-> dateStr,
                 text     |-> day,
                 today    |-> /\ opts.highlightToday
                              /\ day = cd.date
                              /\ month = now.month
                              /\ year = now.year,
                 hasEntry |-> Includes(opts.entryDates, dateStr)]
    IN  [title   |-> monthNames[month + 1] \o " " \o ToString(year),
         fillers |-> NewDate(year, month, 1).day,
         days    |-> [day \in 1..NewDate(year, month + 1, 0).date |-> Cell(day)]]

\* The html render builds: the header's title, the number of filler cells
\* (class other-month, no data-date) and the day cells in order.
RenderHtml(cd, opts, now) ==
    LET year  == cd.year
        month == cd.month
        Cell(day) ==
            LET dateStr == DateStr(year, month, day)
            IN  [date     |-> dateStr,
                 text     |-> day,
                 today    |-> /\ opts.highlightToday
                              /\ day = now.date
                              /\ month = now.month
                              /\ year = now.year,
                 hasEntry |-> HasEntry(opts, dateStr)]
    IN  [title   |-> monthNames[month + 1] \o " " \o ToString(year),
         fillers |-> FirstDay(year, month),
         days    |-> [day \in 1..DaysInMonth(year, month) |-> Cell(day)]]

\* render throws a TypeError when it reads a property of undefined or null:
\* this.currentDate (line 39), this.options (line 82), this.container (101).
RenderThrows(cont, opts, cd) ==
    cd = Undefined \/ opts = Undefined \/ cont = "null"

NoListeners == [nav |-> 0, day |-> 0, filler |-> 0]

NoTree == [html |-> [title |-> "", fillers |-> 0, days |-> << >>],
           listeners |-> NoListeners]

\* Fault injection for the innerHTML assignment: the nodes are reused, so
\* the listeners bound by earlier renders stay on them.
SetInnerHTMLKeepingNodes(tree, html) ==
    [html |-> html, listeners |-> tree.listeners]

\* this.container.innerHTML = html: the old nodes are discarded with the
\* listeners bound to them, the new nodes have none.
SetInnerHTML(tree, html) == [html |-> html, listeners |-> NoListeners]

\* attachEvents: one click listener more on each nav button and on each
\* .calendar-day:not(.other-month) of the subtree.
AttachEvents(tree) ==
    [tree EXCEPT !.listeners.nav = @ + 1, !.listeners.day = @ + 1]

\* render() followed by attachEvents(), as every operation calls them.
Rerender(tree, cd, opts, now) ==
    AttachEvents(SetInnerHTML(tree, RenderHtml(cd, opts, now)))

\* The { year, month } object getCurrentMonth builds from this.currentDate.
CurrentMonthOf(cd) == [year |-> cd.year, month |-> cd.month]

NoCall == [op |-> "none", threw |-> FALSE, pre |-> Undefined,
           argYear |-> 0, argMonth |-> 0, target |-> "",
           monthChange |-> << >>, dateSelect |-> << >>, ret |-> Undefined]

(***************************************************************************)
(* Construction (calendar.js 9-36).                                        *)
(***************************************************************************)

\* The page's other components before anything is done with them.
NoEvent == [name |-> "none", empty |-> FALSE, sent |-> FALSE]
NoForm ==
    [listening |-> FALSE, open |-> FALSE, subject |-> << >>,
     message |-> << >>, disabled |-> FALSE, label |-> "template",
     requests |-> << >>, formHidden |-> FALSE, successShown |-> FALSE,
     footerHidden |-> FALSE, closeTimers |-> 0, alert |-> "",
     event |-> NoEvent]
NoDebounce ==
    [wait |-> 0, now |-> 0, timeout |-> 0, nextId |-> 1, timers |-> {},
     calls |-> << >>, invoked |-> << >>]

PageIdle == modals = << >> /\ form = NoForm /\ deb = NoDebounce

Init ==
    \E resolved \in BOOLEAN, now \in Todays, o \in HostOptions :
        /\ PageIdle
        /\ today = now
        /\ suppliedDates = o.entryDates
        /\ last = [NoCall EXCEPT !.op = "constructor"]
        /\ IF resolved
           THEN /\ container = "element"
                /\ options = o
                /\ currentDate = now
                /\ selectedDate = "null"
                /\ dom = Rerender(NoTree, now, o, now)
           ELSE /\ container = "null"
                /\ options = Undefined
                /\ currentDate = Undefined
                /\ selectedDate = "undefined"
                /\ dom = NoTree

(***************************************************************************)
(* The click handlers attachEvents binds (calendar.js 106-132).            *)
(***************************************************************************)

\* One run of a nav button's click listener on w = [cd, tree, calls]:
\* setMonth on this.currentDate, render, attachEvents, then onMonthChange
\* (when configured) with this.currentDate itself as its argument. A call
\* is recorded with the header title shown when it is made.
NavHandler(w, action, opts, now) ==
    LET cd2   == IF action = "prev" THEN SetMonth(w.cd, w.cd.month - 1)
                 ELSE IF action = "next" THEN SetMonth(w.cd, w.cd.month + 1)
                 ELSE w.cd
        tree2 == Rerender(w.tree, cd2, opts, now)
    IN  [cd    |-> cd2,
         tree  |-> tree2,
         calls |-> IF opts.onMonthChange
                   THEN Append(w.calls, [arg |-> cd2, title |-> tree2.html.title])
                   ELSE w.calls]

\* A click runs each of the n listeners bound to the clicked node.
RECURSIVE NavDispatch(_, _, _, _, _)
NavDispatch(n, w, action, opts, now) ==
    IF n = 0 THEN w
    ELSE NavDispatch(n - 1, NavHandler(w, action, opts, now), action, opts, now)

\* One run of a day cell's click listener on w = [selected, calls];
\* dateStr is the cell's dataset.date ("" when the node has none).
DayHandler(w, dateStr, opts) ==
    IF dateStr /= "" /\ opts.onDateSelect
    THEN [selected |-> dateStr, calls |-> Append(w.calls, dateStr)]
    ELSE w

RECURSIVE DayDispatch(_, _, _, _)
DayDispatch(n, w, dateStr, opts) ==
    IF n = 0 THEN w
    ELSE DayDispatch(n - 1, DayHandler(w, dateStr, opts), dateStr, opts)

\* The user clicks the previous or the next button of the rendered header.
NavClick(action) ==
    /\ dom.html.title /= ""
    /\ InWindow(currentDate)
    /\ LET w == NavDispatch(dom.listeners.nav,
                            [cd |-> currentDate, tree |-> dom, calls |-> << >>],
                            action, options, today)
       IN  /\ currentDate' = w.cd
           /\ dom' = w.tree
           /\ last' = [NoCall EXCEPT !.op = action, !.pre = currentDate,
                                     !.monthChange = w.calls]
    /\ UNCHANGED <<container, options, selectedDate, today, suppliedDates>>
    /\ UNCHANGED pageVars

\* The user clicks the day cell of the given day of the rendered grid.
DayClick(day) ==
    /\ day \in 1..Len(dom.html.days)
    /\ LET dateStr == dom.html.days[day].date
           w == DayDispatch(dom.listeners.day,
                            [selected |-> selectedDate, calls |-> << >>],
                            dateStr, options)
       IN  /\ selectedDate' = w.selected
           /\ last' = [NoCall EXCEPT !.op = "dayClick", !.pre = currentDate,
                                     !.target = dateStr, !.dateSelect = w.calls]
    /\ UNCHANGED <<container, options, currentDate, today, dom, suppliedDates>>
    /\ UNCHANGED pageVars

\* The user clicks a filler cell (class other-month, no data-date).
FillerClick ==
    /\ dom.html.fillers > 0
    /\ LET w == DayDispatch(dom.listeners.filler,
                            [selected |-> selectedDate, calls |-> << >>],
                            "", options)
       IN  /\ selectedDate' = w.selected
           /\ last' = [NoCall EXCEPT !.op = "fillerClick", !.pre = currentDate,
                                     !.dateSelect = w.calls]
    /\ UNCHANGED <<container, options, currentDate, today, dom, suppliedDates>>
    /\ UNCHANGED pageVars

(***************************************************************************)
(* The public methods (calendar.js 139-165).                               *)
(***************************************************************************)

\* Fault injection for the assignment: the new dates are added to the old.
AssignEntryDatesAdding(opts, dates) ==
    [opts EXCEPT !.entryDates = @ \o dates]

\* this.options.entryDates = dates;
AssignEntryDates(opts, dates) == [opts EXCEPT !.entryDates = dates]

setEntryDates(dates) ==
    /\ suppliedDates' = dates
    /\ IF options = Undefined
       THEN \* line 140 reads a property of undefined
            /\ last' = [NoCall EXCEPT !.op = "setEntryDates", !.threw = TRUE,
                                      !.pre = currentDate]
            /\ UNCHANGED <<options, dom>>
       ELSE /\ options' = AssignEntryDates(options, dates)
            /\ IF RenderThrows(container, options', currentDate)
               THEN /\ last' = [NoCall EXCEPT !.op = "setEntryDates",
                                   !.threw = TRUE, !.pre = currentDate]
                    /\ UNCHANGED dom
               ELSE /\ last' = [NoCall EXCEPT !.op = "setEntryDates",
                                   !.pre = currentDate]
                    /\ dom' = Rerender(dom, currentDate, options', today)
    /\ UNCHANGED <<container, currentDate, selectedDate, today>>
    /\ UNCHANGED pageVars

goToMonth(year, month) ==
    /\ currentDate' = NewDate(year, month, 1)
    /\ IF RenderThrows(container, options, currentDate')
       THEN /\ last' = [NoCall EXCEPT !.op = "goToMonth", !.threw = TRUE,
                           !.pre = currentDate,
                           !.argYear = year, !.argMonth = month]
            /\ UNCHANGED dom
       ELSE /\ last' = [NoCall EXCEPT !.op = "goToMonth",
                           !.argYear = year, !.argMonth = month]
            /\ dom' = Rerender(dom, currentDate', options, today)
    /\ UNCHANGED <<container, options, selectedDate, today, suppliedDates>>
    /\ UNCHANGED pageVars

getCurrentMonth ==
    /\ IF currentDate = Undefined
       THEN \* line 162 calls a method of undefined
            last' = [NoCall EXCEPT !.op = "getCurrentMonth", !.threw = TRUE,
                                  !.pre = currentDate]
       ELSE last' = [NoCall EXCEPT !.op = "getCurrentMonth",
                                  !.pre = currentDate,
                                  !.ret = CurrentMonthOf(currentDate)]
    /\ UNCHANGED <<container, options, currentDate, selectedDate, today, dom,
                   suppliedDates>>
    /\ UNCHANGED pageVars

Next ==
    \/ \E action \in {"prev", "next"} : NavClick(action)
    \/ \E day \in 1..MaxClickDay : DayClick(day)
    \/ FillerClick
    \/ \E dates \in EntryArrays : setEntryDates(dates)
    \/ \E year \in GoYears, month \in GoMonths : goToMonth(year, month)
    \/ getCurrentMonth

Spec == Init /\ [][Next]_vars

(***************************************************************************)
(* The host's references into the widget. onMonthChange is called with     *)
(* this.currentDate itself (line 118), and this.options.entryDates is the  *)
(* array the host passed (lines 20-24 and 140): neither is copied.         *)
(***************************************************************************)

\* The months the host sets on the Date it received, the strings it pushes
\* onto the array it passed.
HostSetMonths == {6}
HostPushes == {"2024-01-01"}

\* After a navigation click called onMonthChange(date), the host calls
\* date.setMonth(month) on the value it received.
HostMutatesDate(month) ==
    /\ last.op \in {"prev", "next"}
    /\ last.monthChange /= << >>
    /\ currentDate' = SetMonth(currentDate, month)
    /\ last' = [NoCall EXCEPT !.op = "hostSetMonth", !.pre = currentDate]
    /\ UNCHANGED <<container, options, selectedDate, today, dom, suppliedDates>>
    /\ UNCHANGED pageVars

\* The host pushes a string onto the array it passed as entryDates or to
\* setEntryDates.
HostMutatesArray(dateStr) ==
    /\ options /= Undefined
    /\ ~Includes(options.entryDates, dateStr)
    /\ options' = [options EXCEPT !.entryDates = Append(@, dateStr)]
    /\ last' = [NoCall EXCEPT !.op = "hostPush", !.pre = currentDate]
    /\ UNCHANGED <<container, currentDate, selectedDate, today, dom,
                   suppliedDates>>
    /\ UNCHANGED pageVars

NextHost ==
    \/ Next
    \/ \E month \in HostSetMonths : HostMutatesDate(month)
    \/ \E dateStr \in HostPushes : HostMutatesArray(dateStr)

SpecHost == Init /\ [][NextHost]_vars

(***************************************************************************)
(* A page without a calendar widget: the state the other components'       *)
(* specifications leave the calendar's variables in.                       *)
(***************************************************************************)

CalendarAbsent ==
    /\ container = "null"
    /\ options = Undefined
    /\ currentDate = Undefined
    /\ selectedDate = "undefined"
    /\ today = NewDate(2024, 0, 31)
    /\ dom = NoTree
    /\ suppliedDates = << >>
    /\ last = NoCall

(***************************************************************************)
(* showConfirmModal and showDeleteModal (part_000, lines 16-122).         *)
(*                                                                         *)
(* A modal is its opts.onConfirm / opts.onCancel (given or not), whether   *)
(* its overlay is in document.body, whether its handleEscape listener is   *)
(* registered on document, and, as history, how often each callback was    *)
(* invoked and how often one was invoked by an event that found the        *)
(* overlay already removed.                                                *)
(***************************************************************************)

\* The number of modals the page shows in one run.
MaxModals == 2

\* lines 50-70 and 103: the overlay is appended to document.body and
\* handleEscape is registered on document.
NewModal(confirmText, onConfirm, onCancel) ==
    [confirmText |-> confirmText, onConfirm |-> onConfirm,
     onCancel |-> onCancel, attached |-> TRUE, escape |-> TRUE,
     confirmed |-> 0, cancelled |-> 0, late |-> 0]

\* closeModal(): overlay.remove().
CloseModal(m) == [m EXCEPT !.attached = FALSE]

\* if (opts.onConfirm) opts.onConfirm(); in a handler that found the
\* overlay attached or not.
CallOnConfirm(m, wasAttached) ==
    IF m.onConfirm
    THEN [m EXCEPT !.confirmed = @ + 1,
                   !.late = IF wasAttached THEN @ ELSE @ + 1]
    ELSE m

\* if (opts.onCancel) opts.onCancel();
CallOnCancel(m, wasAttached) ==
    IF m.onCancel
    THEN [m EXCEPT !.cancelled = @ + 1,
                   !.late = IF wasAttached THEN @ ELSE @ + 1]
    ELSE m

\* handleEscape on an Escape keydown (lines 96-102): closeModal, onCancel,
\* then the listener removes itself.
HandleEscape(m) ==
    [CallOnCancel(CloseModal(m), m.attached) EXCEPT !.escape = FALSE]

showConfirmModal(onConfirm, onCancel) ==
    /\ Len(modals) < MaxModals
    /\ modals' = Append(modals, NewModal("Confirm", onConfirm, onCancel))
    /\ UNCHANGED <<calendarVars, form, deb>>

\* showDeleteModal passes its options' onConfirm and onCancel on.
showDeleteModal(onConfirm, onCancel) ==
    /\ Len(modals) < MaxModals
    /\ modals' = Append(modals, NewModal("Delete", onConfirm, onCancel))
    /\ UNCHANGED <<calendarVars, form, deb>>

\* The user clicks the confirm button of a modal on screen (lines 82-85).
ConfirmClick(i) ==
    /\ modals[i].attached
    /\ modals' = [modals EXCEPT
                    ![i] = CallOnConfirm(CloseModal(@), modals[i].attached)]
    /\ UNCHANGED <<calendarVars, form, deb>>

\* The user clicks the cancel button of a modal on screen (lines 77-80).
CancelClick(i) ==
    /\ modals[i].attached
    /\ modals' = [modals EXCEPT
                    ![i] = CallOnCancel(CloseModal(@), modals[i].attached)]
    /\ UNCHANGED <<calendarVars, form, deb>>

\* The user clicks the overlay itself, e.target === overlay (lines 88-93).
OverlayClick(i) ==
    /\ modals[i].attached
    /\ modals' = [modals EXCEPT
                    ![i] = CallOnCancel(CloseModal(@), modals[i].attached)]
    /\ UNCHANGED <<calendarVars, form, deb>>

\* The user clicks inside the modal's content: the click bubbles to the
\* overlay's listener with another target, which does nothing.
ContentClick(i) ==
    /\ modals[i].attached
    /\ UNCHANGED vars

\* The user presses Escape: document dispatches the keydown to every
\* handleEscape still registered, whatever became of its overlay.
EscapeKey ==
    /\ modals' = [i \in 1..Len(modals) |->
                    IF modals[i].escape THEN HandleEscape(modals[i])
                    ELSE modals[i]]
    /\ UNCHANGED <<calendarVars, form, deb>>

\* The user presses another key: e.key === 'Escape' fails in every listener.
OtherKey == UNCHANGED vars

ModalNext ==
    \/ \E onConfirm \in BOOLEAN, onCancel \in BOOLEAN :
            showConfirmModal(onConfirm, onCancel)
    \/ \E onConfirm \in BOOLEAN, onCancel \in BOOLEAN :
            showDeleteModal(onConfirm, onCancel)
    \/ \E i \in 1..Len(modals) : ConfirmClick(i)
    \/ \E i \in 1..Len(modals) : CancelClick(i)
    \/ \E i \in 1..Len(modals) : OverlayClick(i)
    \/ \E i \in 1..Len(modals) : ContentClick(i)
    \/ EscapeKey
    \/ OtherKey

\* The page has loaded and no modal has been shown.
ModalInit ==
    /\ CalendarAbsent
    /\ PageIdle

ModalSpec == ModalInit /\ [][ModalNext]_vars

(***************************************************************************)
(* The feedback form (part_001, lines 124-201).                            *)
(*                                                                         *)
(* form.requests holds the runs of the submit handler that are suspended   *)
(* at an await: "fetch" while the fetch promise is pending, "json" while   *)
(* response.json() is.  form.event is history: what happened last.         *)
(***************************************************************************)

\* What the user may have typed in a field, as sequences of characters.
FieldValues == { << >>, <<" ">>, <<"b">>, <<" ", "b", " ">> }

\* Bounds on the handler runs suspended at once and on the pending
\* auto-close timers.
MaxInFlight == 2
MaxTimers == 2

IsSpace(c) == c = " "

RECURSIVE TrimStart(_)
TrimStart(str) ==
    IF str /= << >> /\ IsSpace(Head(str)) THEN TrimStart(Tail(str)) ELSE str

RECURSIVE TrimEnd(_)
TrimEnd(str) ==
    IF str /= << >> /\ IsSpace(str[Len(str)])
    THEN TrimEnd(SubSeq(str, 1, Len(str) - 1))
    ELSE str

\* String.prototype.trim
Trim(str) == TrimEnd(TrimStart(str))

\* !subject || !message (line 157)
MissingField(f) == Trim(f.subject) = << >> \/ Trim(f.message) = << >>

RemoveAt(seq, i) == SubSeq(seq, 1, i - 1) \o SubSeq(seq, i + 1, Len(seq))

\* Fault injection for the finally block: the button stays as it is.
FinallyKeepingButton(f) == f

\* finally (lines 196-199)
Finally(f) == [f EXCEPT !.disabled = FALSE, !.label = "Send Feedback"]

\* initFeedbackForm: the listeners are registered when the page has the
\* modal, a feedback URL and a CSRF token (lines 124-135).
FormInit ==
    \E hasModal \in BOOLEAN, hasUrl \in BOOLEAN, hasToken \in BOOLEAN :
        form = [NoForm EXCEPT !.listening = hasModal /\ hasUrl /\ hasToken]

\* The modal opens: 'show.bs.modal' (lines 138-148).
ShowModal ==
    /\ ~form.open
    /\ form' = IF form.listening
               THEN [form EXCEPT !.open = TRUE, !.formHidden = FALSE,
                                 !.successShown = FALSE,
                                 !.footerHidden = FALSE,
                                 !.subject = << >>, !.message = << >>,
                                 !.event = [NoEvent EXCEPT !.name = "show"]]
               ELSE [form EXCEPT !.open = TRUE]
    /\ UNCHANGED <<calendarVars, modals, deb>>

\* The user closes the modal.
HideModal ==
    /\ form.open
    /\ form' = [form EXCEPT !.open = FALSE]
    /\ UNCHANGED <<calendarVars, modals, deb>>

\* The user edits a field of the open modal.
TypeSubject(str) ==
    /\ form.open
    /\ form.subject /= str
    /\ form' = [form EXCEPT !.subject = str,
                            !.event = [NoEvent EXCEPT !.name = "type"]]
    /\ UNCHANGED <<calendarVars, modals, deb>>

TypeMessage(str) ==
    /\ form.open
    /\ form.message /= str
    /\ form' = [form EXCEPT !.message = str,
                            !.event = [NoEvent EXCEPT !.name = "type"]]
    /\ UNCHANGED <<calendarVars, modals, deb>>

\* The user clicks the submit button; a disabled button dispatches no
\* click.  The handler runs up to its first await (lines 151-166).
SubmitClick ==
    /\ form.open
    /\ form.listening
    /\ ~form.disabled
    /\ Len(form.requests) < MaxInFlight
    /\ form.closeTimers < MaxTimers
    /\ form' =
         IF MissingField(form)
         THEN [form EXCEPT
                 !.alert = "Please fill in both subject and details.",
                 !.event = [name |-> "submit", empty |-> TRUE,
                            sent |-> FALSE]]
         ELSE [form EXCEPT
                 !.disabled = TRUE,
                 !.label = "Sending...",
                 !.requests = Append(@, "fetch"),
                 !.event = [name |-> "submit", empty |-> FALSE,
                            sent |-> TRUE]]
    /\ UNCHANGED <<calendarVars, modals, deb>>

\* The response arrives: the handler goes on to await response.json().
FetchResolves(i) ==
    /\ form.requests[i] = "fetch"
    /\ form' = [form EXCEPT !.requests[i] = "json",
                            !.event = [NoEvent EXCEPT !.name = "response"]]
    /\ UNCHANGED <<calendarVars, modals, deb>>

\* fetch rejects (network error): catch, then finally (lines 194-199).
FetchRejects(i) ==
    /\ form.requests[i] = "fetch"
    /\ form' = Finally([form EXCEPT
                 !.requests = RemoveAt(@, i),
                 !.alert = "Failed to submit feedback. Please try again.",
                 !.event = [NoEvent EXCEPT !.name = "networkError"]])
    /\ UNCHANGED <<calendarVars, modals, deb>>

\* response.json() rejects (the body is not JSON): catch, then finally.
JsonRejects(i) ==
    /\ form.requests[i] = "json"
    /\ form' = Finally([form EXCEPT
                 !.requests = RemoveAt(@, i),
                 !.alert = "Failed to submit feedback. Please try again.",
                 !.event = [NoEvent EXCEPT !.name = "parseError"]])
    /\ UNCHANGED <<calendarVars, modals, deb>>

\* response.json() resolves with data (lines 180-193), then finally.
JsonResolves(i, success) ==
    /\ form.requests[i] = "json"
    /\ form' =
         IF success
         THEN Finally([form EXCEPT
                 !.requests = RemoveAt(@, i),
                 !.formHidden = TRUE,
                 !.footerHidden = TRUE,
                 !.successShown = TRUE,
                 !.closeTimers = @ + 1,
                 !.event = [NoEvent EXCEPT !.name = "success"]])
         ELSE Finally([form EXCEPT
                 !.requests = RemoveAt(@, i),
                 !.alert = "Something went wrong. Please try again.",
                 !.event = [NoEvent EXCEPT !.name = "failure"]])
    /\ UNCHANGED <<calendarVars, modals, deb>>

\* The auto-close timer of a success fires: bsModal.hide() (lines 187-190).
AutoClose ==
    /\ form.closeTimers > 0
    /\ form' = [form EXCEPT !.closeTimers = @ - 1, !.open = FALSE]
    /\ UNCHANGED <<calendarVars, modals, deb>>

FormNext ==
    \/ ShowModal
    \/ HideModal
    \/ \E str \in FieldValues : TypeSubject(str)
    \/ \E str \in FieldValues : TypeMessage(str)
    \/ SubmitClick
    \/ \E i \in 1..Len(form.requests) : FetchResolves(i)
    \/ \E i \in 1..Len(form.requests) : FetchRejects(i)
    \/ \E i \in 1..Len(form.requests) : JsonRejects(i)
    \/ \E i \in 1..Len(form.requests), success \in BOOLEAN :
            JsonResolves(i, success)
    \/ AutoClose

FormPageInit ==
    /\ CalendarAbsent
    /\ modals = << >>
    /\ deb = NoDebounce
    /\ FormInit

FormSpec == FormPageInit /\ [][FormNext]_vars

(***************************************************************************)
(* debounce (part_001, lines 233-243).                                     *)
(*                                                                         *)
(* deb.timeout is the closure's variable (0: undefined), deb.timers the    *)
(* browser's table of pending timers, deb.now the clock in units of time.  *)
(* deb.calls and deb.invoked are history: the calls of the debounced       *)
(* function and the invocations of func, with their times.                 *)
(***************************************************************************)

\* The wait times debounce is created with, the arguments of a call, the
\* last instant of the clock and the number of calls in one run.
Waits == {0, 1, 2}
ArgValues == {"a", "b"}
MaxTime == 4
MaxCalls == 3

\* Fault injection for clearTimeout: the timer stays in the table.
ClearTimeoutKeeping(timers, id) == timers

\* clearTimeout(id): the timer, if still pending, is dropped; clearing
\* undefined or a timer that has fired does nothing.
ClearTimeout(timers, id) == { t \in timers : t.id /= id }

\* setTimeout(later, wait): a new timer, due wait from now.
SetTimeout(timers, id, now, wait, args) ==
    timers \cup { [id |-> id, due |-> now + wait, args |-> args] }

\* debounce(func, wait)
DebounceInit ==
    \E wait \in Waits : deb = [NoDebounce EXCEPT !.wait = wait]

\* A call of the returned function (lines 235-241).
Call(args) ==
    /\ Len(deb.calls) < MaxCalls
    /\ deb.now + deb.wait <= MaxTime
    /\ deb' = [deb EXCEPT
                 !.timers = SetTimeout(ClearTimeout(@, deb.timeout),
                                       deb.nextId, deb.now, deb.wait, args),
                 !.timeout = deb.nextId,
                 !.nextId = @ + 1,
                 !.calls = Append(@, [at |-> deb.now, args |-> args])]
    /\ UNCHANGED <<calendarVars, modals, form>>

\* A timer that is due fires and runs later (lines 236-239); func is
\* invoked with the arguments of the call that set the timer.
Fire(t) ==
    /\ t \in deb.timers
    /\ t.due <= deb.now
    /\ LET rest == ClearTimeout(deb.timers \ {t}, deb.timeout)
       IN  deb' = [deb EXCEPT
                     !.timers = rest,
                     !.invoked = Append(@, [at |-> deb.now, args |-> t.args,
                                            pending |-> Cardinality(rest)])]
    /\ UNCHANGED <<calendarVars, modals, form>>

\* Time passes; a timer that is due may run late.
Tick ==
    /\ deb.now < MaxTime
    /\ deb' = [deb EXCEPT !.now = @ + 1]
    /\ UNCHANGED <<calendarVars, modals, form>>

DebounceNext ==
    \/ \E args \in ArgValues : Call(args)
    \/ \E t \in deb.timers : Fire(t)
    \/ Tick

DebouncePageInit ==
    /\ CalendarAbsent
    /\ modals = << >>
    /\ form = NoForm
    /\ DebounceInit

\* Time passes and the event loop runs the timers that are due.
DebounceSpec ==
    /\ DebouncePageInit
    /\ [][DebounceNext]_vars
    /\ WF_vars(Tick)
    /\ WF_vars(\E t \in deb.timers : Fire(t))

(***************************************************************************)
(* Properties.                                                             *)
(***************************************************************************)

Rendered == container = "element"

Displayed == CurrentMonthOf(currentDate)

\* The calendar month after and before a (year, month) pair.
MonthAfter(ym) ==
    IF ym.month = 11 THEN [year |-> ym.year + 1, month |-> 0]
    ELSE [year |-> ym.year, month |-> ym.month + 1]

MonthBefore(ym) ==
    IF ym.month = 0 THEN [year |-> ym.year - 1, month |-> 11]
    ELSE [year |-> ym.year, month |-> ym.month - 1]

\* The Gregorian calendar, by its rules rather than by Date arithmetic.
IsLeapYear(y) == y % 4 = 0 /\ (y % 100 /= 0 \/ y % 400 = 0)

GregorianDays(y, m) ==
    IF m = 1 THEN (IF IsLeapYear(y) THEN 29 ELSE 28)
    ELSE IF m \in {3, 5, 8, 10} THEN 30 ELSE 31

\* The weekday (0 = Sunday) of day 1 of a month.
WeekdayOfFirst(y, m) == (DayFromCivil(y, m, 1) + 4) % 7

\* C1: a click on next displays the calendar month right after the one
\* displayed before it, a click on previous the month right before; the
\* displayed month never stays and never moves by two.
C1_NavMovesOneMonth ==
    /\ last.op = "next" => Displayed = MonthAfter(CurrentMonthOf(last.pre))
    /\ last.op = "prev" => Displayed = MonthBefore(CurrentMonthOf(last.pre))

\* C2: on an instance whose container was not resolved, setEntryDates,
\* goToMonth and getCurrentMonth raise no error and render nothing.
C2_InertIsSafe ==
    container = "null" => ~last.threw /\ dom = NoTree

\* C3: a click on a day cell of the rendered grid invokes onDateSelect
\* exactly once, with the cell's identifier; a click on a filler cell
\* invokes no callback; every node of the rendered subtree carries only the
\* listener of the latest attachEvents.
C3_DayClickOnce ==
    /\ Rendered => dom.listeners = [nav |-> 1, day |-> 1, filler |-> 0]
    /\ last.op = "dayClick" /\ options.onDateSelect =>
            /\ last.dateSelect = << last.target >>
            /\ \E d \in 1..Len(dom.html.days) :
                    last.target = DateStr(currentDate.year, currentDate.month, d)
    /\ last.op = "fillerClick" =>
            last.dateSelect = << >> /\ last.monthChange = << >>

\* C3 happens: a day cell is clicked after navigation has re-rendered the
\* grid, and onDateSelect is invoked with its identifier.
C3_Witness ==
    /\ last.op = "dayClick"
    /\ options.onDateSelect
    /\ CurrentMonthOf(currentDate) /= CurrentMonthOf(today)
    /\ last.dateSelect = << DateStr(currentDate.year, currentDate.month, 1) >>

\* C4: goToMonth(year, month) with month in 0..11 displays exactly
\* (year, month) and invokes onMonthChange not at all.
C4_GoToMonthExact ==
    Rendered /\ last.op = "goToMonth" /\ last.argMonth \in 0..11 =>
        /\ Displayed = [year |-> last.argYear, month |-> last.argMonth]
        /\ last.monthChange = << >>

\* C5: a day cell of the rendered grid is flagged has-entry exactly when
\* its identifier is in the collection the host supplied last, and
\* setEntryDates leaves the displayed month as it was.
C5_EntryFlags ==
    /\ Rendered =>
            \A d \in 1..Len(dom.html.days) :
                dom.html.days[d].hasEntry
                    <=> Includes(suppliedDates, dom.html.days[d].date)
    /\ Rendered /\ last.op = "setEntryDates" =>
            /\ ~last.threw
            /\ Displayed = CurrentMonthOf(last.pre)
            /\ dom.html.title =
                    monthNames[last.pre.month + 1] \o " " \o ToString(last.pre.year)

\* C5 happens: after setEntryDates replaced the collection and the user
\* navigated on, the one day of the new collection in the displayed month
\* is flagged.
C5_Witness ==
    /\ Rendered
    /\ last.op = "next"
    /\ suppliedDates = << "2024-02-29", "2024-1-31" >>
    /\ Displayed = [year |-> 2024, month |-> 1]
    /\ dom.html.days[29].hasEntry
    /\ ~dom.html.days[15].hasEntry

\* C6: a click on previous or next invokes a configured onMonthChange
\* exactly once, after the grid is rendered for the new month, with the
\* { year, month } pair getCurrentMonth then returns.
C6_MonthChangeArgument ==
    last.op \in {"prev", "next"} /\ options.onMonthChange =>
        /\ Len(last.monthChange) = 1
        /\ last.monthChange[1].title = dom.html.title
        /\ last.monthChange[1].arg = CurrentMonthOf(currentDate)

\* C7: next from December of year Y displays January of Y + 1, previous
\* from January of Y displays December of Y - 1, whatever the day of the
\* month of the widget's date.
C7_YearRollover ==
    /\ last.op = "next" /\ last.pre.month = 11 =>
            Displayed = [year |-> last.pre.year + 1, month |-> 0]
    /\ last.op = "prev" /\ last.pre.month = 0 =>
            Displayed = [year |-> last.pre.year - 1, month |-> 11]

\* C7 happens: next is clicked on December 31st.
C7_Witness ==
    /\ last.op = "next"
    /\ last.pre.month = 11
    /\ last.pre.date = 31
    /\ Displayed = [year |-> 2024, month |-> 0]

\* C8: the grid holds one day cell for each day 1..N of the displayed
\* month, N its Gregorian day count, each with its own identifier.
C8_DayCells ==
    Rendered =>
        /\ Len(dom.html.days) = GregorianDays(currentDate.year, currentDate.month)
        /\ \A d \in 1..Len(dom.html.days) :
                /\ dom.html.days[d].text = d
                /\ dom.html.days[d].date =
                        DateStr(currentDate.year, currentDate.month, d)

\* C9: the number of filler cells is the weekday index of day 1 of the
\* displayed month.
C9_FillerCells ==
    Rendered =>
        dom.html.fillers = WeekdayOfFirst(currentDate.year, currentDate.month)

\* C10: a click on a day cell sets selectedDate to the cell's identifier,
\* whether or not an onDateSelect callback was supplied.
C10_ClickSelects ==
    last.op = "dayClick" => selectedDate = last.target

\* The grid as a function of the displayed (year, month), the entry dates,
\* the clock's day and highlightToday alone: what render builds for a
\* widget whose date is the first of the month and which has no callbacks.
GridOf(ym, entryDates, now, highlightToday) ==
    RenderHtml([kind |-> "Date", year |-> ym.year, month |-> ym.month,
                date |-> 1, day |-> 0],
               [entryDates |-> entryDates, onDateSelect |-> FALSE,
                onMonthChange |-> FALSE, highlightToday |-> highlightToday],
               [kind |-> "Date", year |-> now.year, month |-> now.month,
                date |-> now.date, day |-> 0])

\* C11: the rendered grid is determined by the displayed (year, month), the
\* entry dates, today and highlightToday: every widget that agrees on these
\* four shows the grid GridOf gives for them, whatever its selectedDate, the
\* day of the month of its date and the operations that led to its state.
C11_RenderDeterministic ==
    Rendered =>
        dom.html = GridOf(Displayed, options.entryDates, today,
                          options.highlightToday)

\* C11 happens: a widget whose date is not the first of the month, which
\* has a selected date and was navigated to the month of today, shows the
\* grid with today's cell flagged.
C11_Witness ==
    /\ Rendered
    /\ last.op \in {"prev", "next"}
    /\ currentDate.date /= 1
    /\ selectedDate /= "null"
    /\ Displayed = CurrentMonthOf(today)
    /\ dom.html.days[today.date].today
    /\ dom.html = GridOf(Displayed, options.entryDates, today,
                         options.highlightToday)

\* C12: the displayed month index is always in 0..11, and goToMonth with a
\* month of 12 or -1 carries into the year: goToMonth(y, 12) displays
\* January of y + 1, goToMonth(y, -1) December of y - 1.
C12_MonthNormalised ==
    Rendered =>
        /\ currentDate.month \in 0..11
        /\ last.op = "goToMonth" /\ last.argMonth = 12 =>
                Displayed = [year |-> last.argYear + 1, month |-> 0]
        /\ last.op = "goToMonth" /\ last.argMonth = -1 =>
                Displayed = [year |-> last.argYear - 1, month |-> 11]

\* C15: a click on next followed by a click on previous, and a click on
\* previous followed by a click on next, display the month displayed
\* before the two clicks.
C15_NavRoundTrip ==
    [][ /\ last.op = "next" /\ last'.op = "prev" =>
            CurrentMonthOf(currentDate') = CurrentMonthOf(last.pre)
        /\ last.op = "prev" /\ last'.op = "next" =>
            CurrentMonthOf(currentDate') = CurrentMonthOf(last.pre) ]_vars

\* C13: the displayed month changes only through a prev/next click or
\* goToMonth and the entry dates only through setEntryDates: whatever the
\* host does with the value it received in onMonthChange or with the array
\* it passed, the widget's entry dates are those supplied last and every
\* other step leaves the displayed month as it was.
C13_OwnedState ==
    Rendered =>
        /\ options.entryDates = suppliedDates
        /\ last.op \notin {"constructor", "prev", "next", "goToMonth"} =>
                Displayed = CurrentMonthOf(last.pre)

\* C14: for each modal shown, over any sequence of clicks and keypresses,
\* onConfirm and onCancel together are invoked at most once, and neither
\* is invoked by an event that comes after the overlay was removed.
C14_ModalCallsOnce ==
    \A i \in 1..Len(modals) :
        /\ modals[i].confirmed + modals[i].cancelled <= 1
        /\ modals[i].late = 0

\* C16: the submit button is disabled exactly while a feedback request is
\* in flight, so it is enabled again after every outcome; at most one
\* request is in flight; a submit with an empty (blank) subject or message
\* sends no request and leaves the button enabled.
C16_SubmitButton ==
    /\ form.disabled <=> form.requests /= << >>
    /\ Len(form.requests) <= 1
    /\ form.event.name \in {"success", "failure", "networkError",
                             "parseError"} => ~form.disabled
    /\ form.event.name = "submit" =>
           /\ form.event.empty <=> MissingField(form)
           /\ form.event.empty => ~form.event.sent /\ ~form.disabled
           /\ form.event.sent => form.disabled

\* A request was sent, its body turned out not to be JSON, and the button
\* is enabled again.
C16_Witness ==
    /\ form.event.name = "parseError"
    /\ form.label = "Send Feedback"
    /\ ~form.disabled

\* Every call so far followed the previous one by less than wait.
Burst ==
    \A i \in 2..Len(deb.calls) :
        deb.calls[i].at - deb.calls[i - 1].at < deb.wait

LastCall == deb.calls[Len(deb.calls)]

DebounceSafe ==
    /\ \A i \in 1..Len(deb.invoked) : deb.invoked[i].pending = 0
    /\ Burst /\ deb.calls /= << >> =>
           /\ Len(deb.invoked) <= 1
           /\ deb.timers /= {} => deb.invoked = << >>
           /\ deb.timers = {} =>
                  /\ Len(deb.invoked) = 1
                  /\ deb.invoked[1].args = LastCall.args
                  /\ deb.invoked[1].at >= LastCall.at + deb.wait

\* C17: a sequence of calls of the debounced function, each less than wait
\* after the previous one, leads to exactly one invocation of func, after
\* the last call and with its arguments; func is never invoked while the
\* timer of a later call is pending; and after a call the timer does run.
C17_DebounceOnce ==
    /\ []DebounceSafe
    /\ (deb.calls /= << >>) ~> (deb.timers = {})

\* A burst of three calls with different arguments has been followed by
\* its one invocation of func.
C17_Witness ==
    /\ Burst
    /\ Len(deb.calls) = 3
    /\ deb.calls[1].args /= deb.calls[3].args
    /\ deb.calls[3].at > deb.calls[1].at
    /\ Len(deb.invoked) = 1
====
